---------------------------- MODULE Spec2Model ----------------------------
(* Curation reconciliation of the cluster-logging-operator                 *)
(* (pkg/k8shandler/curation.go): CreateOrUpdateCuration and its helpers,   *)
(* run against a resource store that other actors write concurrently.      *)
(* One action is one store call of the pass together with the local code   *)
(* that follows it up to the next store call; the store is only shared     *)
(* between the pass and the other actors at those calls.                   *)
EXTENDS Integers, Sequences, FiniteSets, TLC

(* ------------------------------ bounds --------------------------------- *)
\* reconciliation passes in one behaviour
MaxPasses == 2
\* writes of other actors (users, other controllers) in one behaviour
MaxExternal == 1
\* writes of a concurrent writer between the reads and the writes of one
\* behaviour's retry loops
MaxWrites == 5

(* ------------------------- program constants --------------------------- *)
\* retry.DefaultRetry: Steps = 5 (the attempts of retry.RetryOnConflict)
DefaultRetrySteps == 5

defaultSchedule == "30 3,9,15,21 * * *"

\* image of the curator container (utils.Container), and the other value a
\* live job may carry
CuratorImage == "logging-curator:v2"
Images == {"logging-curator:v1", "logging-curator:v2"}

\* schedule override of the ClusterLogging spec ("" = none given)
ScheduleOverrides == {"", "0 0 * * *"}
Schedules == {defaultSchedule, "0 0 * * *"}

\* *bool of CronJobSpec.Suspend
Suspends == {"nil", "true", "false"}

\* container resources: the default of newCuratorCronJob, or a manual edit
defaultResources == "defaultCuratorMemory"
Resources == {defaultResources, "manual"}

CurationTypeCurator == "curator"
ManagementStateManaged == "Managed"

ClusterSpecs ==
    [type : {CurationTypeCurator, ""},
     managementState : {ManagementStateManaged, "Unmanaged"},
     allInOne : BOOLEAN,
     schedule : ScheduleOverrides]

JobNames == {"curator", "curator-app", "curator-infra"}
StaticKinds == {"ServiceAccount", "ConfigMap", "Secret"}

\* a CronJob that is not there (also: "no object" in the call log)
Absent ==
    [exists |-> FALSE, name |-> "", schedule |-> "", suspend |-> "nil",
     image |-> "", resources |-> "", rv |-> 0]

NoStatus == [n \in JobNames |-> <<"", "">>]

VARIABLES
    owner,          \* the ClusterLogging object in the store
    statics,        \* service account, config map, secret "curator"
    jobs,           \* the CronJobs in the store, by name
    pc,             \* position of the pass
    cluster,        \* argument of CreateOrUpdateCuration (spec of the owner)
    ji,             \* index of the job / deletion being processed
    attempt,        \* attempt number inside retry.RetryOnConflict
    current,        \* the CronJob as sdk.Get returned it
    curOwner,       \* the ClusterLogging as DoesClusterLoggingExist returned it
    curatorStatus,  \* result of getCuratorStatus
    result,         \* what CreateOrUpdateCuration returned
    rmErr,          \* what removeCurator returned
    calls,          \* store calls issued by the current pass, in order
    pass,           \* number of passes started
    prev,           \* the previous pass: its argument, and whether it ran
                    \* (and the time since) without a write of another actor
                    \* and without an unclassified store error
    ext,            \* writes of other actors so far
    extSeen,        \* another actor wrote since the current pass started
    pre,            \* the CronJobs and static resources when the pass started
    diff            \* a call of isCuratorDifferent: its arguments and results

vars ==
    <<owner, statics, jobs, pc, cluster, ji, attempt, current, curOwner,
      curatorStatus, result, rmErr, calls, pass, prev, ext, extSeen,
      pre, diff>>

locals == <<ji, attempt, current, curOwner, curatorStatus>>

(* ------------------------ desired-state factory ------------------------ *)
newCuratorCronJob(logging, curatorName) ==
    [exists |-> TRUE,
     name |-> curatorName,
     schedule |-> IF logging.schedule = "" THEN defaultSchedule
                  ELSE logging.schedule,
     suspend |-> "nil",
     image |-> CuratorImage,
     resources |-> defaultResources,
     rv |-> 0]

\* the split branch without its second job
CronJobNames_noInfra(c) ==
    IF c.allInOne THEN <<"curator">> ELSE <<"curator-app">>

\* the jobs createOrUpdateCuratorCronJob works on, in order
CronJobNames(c) ==
    IF c.allInOne THEN <<"curator">> ELSE <<"curator-app", "curator-infra">>

\* the deletions of removeCurator, in order
RemoveTargets ==
    <<[kind |-> "ServiceAccount", name |-> "curator"],
      [kind |-> "ConfigMap", name |-> "curator"],
      [kind |-> "Secret", name |-> "curator"],
      [kind |-> "CronJob", name |-> "curator"]>>

(* ------------------------------ diff ----------------------------------- *)
\* isCuratorDifferent with "different" initialised to true
isCuratorDifferent_always(cur, desired) ==
    [current |-> [cur EXCEPT !.schedule = desired.schedule,
                             !.image = desired.image],
     different |-> TRUE]

\* isCuratorDifferent without the image check
isCuratorDifferent_noImage(cur, desired) ==
    LET d1 == cur.schedule # desired.schedule
        c1 == IF d1 THEN [cur EXCEPT !.schedule = desired.schedule] ELSE cur
        d2 == /\ c1.suspend # "nil"
              /\ desired.suspend # "nil"
              /\ c1.suspend # desired.suspend
        c2 == IF d2 THEN [c1 EXCEPT !.suspend = desired.suspend] ELSE c1
    IN  [current |-> c2, different |-> d1 \/ d2]

\* isCuratorDifferent comparing the suspend flags without the nil checks
isCuratorDifferent_nilSuspend(cur, desired) ==
    LET d1 == cur.schedule # desired.schedule
        c1 == IF d1 THEN [cur EXCEPT !.schedule = desired.schedule] ELSE cur
        d2 == c1.suspend # desired.suspend
        c2 == IF d2 THEN [c1 EXCEPT !.suspend = desired.suspend] ELSE c1
        d3 == c2.image # desired.image
        c3 == IF d3 THEN [c2 EXCEPT !.image = desired.image] ELSE c2
    IN  [current |-> c3, different |-> d1 \/ d2 \/ d3]

\* isCuratorDifferent handing back the desired object, which carries no
\* resource version
isCuratorDifferent_desired(cur, desired) ==
    [current |-> desired,
     different |-> \/ cur.schedule # desired.schedule
                   \/ cur.image # desired.image]

\* isCuratorDifferent handing back the desired object (with the version read)
isCuratorDifferent_clobber(cur, desired) ==
    [current |-> [desired EXCEPT !.rv = cur.rv],
     different |-> \/ cur.schedule # desired.schedule
                   \/ cur.image # desired.image]

isCuratorDifferent(cur, desired) ==
    LET d1 == cur.schedule # desired.schedule
        c1 == IF d1 THEN [cur EXCEPT !.schedule = desired.schedule] ELSE cur
        d2 == /\ c1.suspend # "nil"
              /\ desired.suspend # "nil"
              /\ c1.suspend # desired.suspend
        c2 == IF d2 THEN [c1 EXCEPT !.suspend = desired.suspend] ELSE c1
        d3 == c2.image # desired.image
        c3 == IF d3 THEN [c2 EXCEPT !.image = desired.image] ELSE c2
    IN  [current |-> c3, different |-> d1 \/ d2 \/ d3]

(* ------------------------- error classification ------------------------ *)
\* the test without errors.IsAlreadyExists
IsFatalCreateError_strict(ans) == ans # "OK"

\* err != nil && !errors.IsAlreadyExists(err)
IsFatalCreateError(ans) == ans \notin {"OK", "AlreadyExists"}

\* utils.CreateOrUpdateSecret: creation only, "already exists" is success
IsFatalSecretError(ans) == ans \notin {"OK", "AlreadyExists"}

\* a creator that writes its content over the resource that is there
OnAlreadyExists_update(kind) == "update"

\* what the creators of the static resources do with the resource that is
\* there when sdk.Create answers AlreadyExists: they return nil
OnAlreadyExists(kind) == "keep"

\* the test without errors.IsNotFound
IsBenignGetError_never(ans) == FALSE

\* updateCuratorIfRequired: errors.IsNotFound(err) after sdk.Get
IsBenignGetError(ans) == ans = "NotFound"

\* the test without errors.IsNotFound
IsFatalDeleteError_strict(ans) == ans # "OK"

\* utils.Remove*: err != nil && !errors.IsNotFound(err)
IsFatalDeleteError(ans) == ans \notin {"OK", "NotFound"}

\* a retry wrapper that gives up on the first Conflict
IsConflict_never(ans) == FALSE

\* retry.RetryOnConflict: errors.IsConflict(err) makes the closure run again
IsConflict(ans) == ans = "Conflict"

\* a retry loop without a limit
BudgetLeft_always(n) == TRUE

\* retry.DefaultRetry: the closure is run at most Steps times
BudgetLeft(n) == n < DefaultRetrySteps

\* no retry loop around updateCuratorIfRequired at all
UpdateGate_never(c) == FALSE

\* the retry loop entered whatever the management state
UpdateGate_always(c) == TRUE

\* cluster.Spec.ManagementState == logging.ManagementStateManaged, before
\* the retry loop around updateCuratorIfRequired
UpdateGate(c) == c.managementState = ManagementStateManaged

\* the same test at the head of removeCurator
RemoveGate(c) == c.managementState = ManagementStateManaged

\* the enabled branch taken in managed mode only
CurationEnabled_managedOnly(c) ==
    c.type = CurationTypeCurator /\ c.managementState = ManagementStateManaged

\* cluster.Spec.Curation.Type == logging.CurationTypeCurator
CurationEnabled(c) == c.type = CurationTypeCurator

\* CreateOrUpdateCuration's return value after removeCurator(cluster)
ResultAfterRemove(e) == "nil"

(* --------------------------- derived status ---------------------------- *)
\* getCuratorStatus: what is observed of the curator CronJobs
DerivedStatus(js) ==
    [n \in JobNames |->
        IF js[n].exists THEN <<js[n].schedule, js[n].suspend>> ELSE <<"", "">>]

\* the comparison answering "not equal" whatever the two values are
StatusDiffers_always(computed, stored) == TRUE

\* !reflect.DeepEqual(curatorStatus, cluster.Status.Curation.CuratorStatus)
StatusDiffers(computed, stored) == computed # stored

(* ------------------------------- helpers ------------------------------- *)
\* any store call may be answered with an unclassified error ("Other")
FaultChoices == BOOLEAN

Call(op, kind, name, ans, obj) ==
    [op |-> op, kind |-> kind, name |-> name, ans |-> ans, obj |-> obj]

\* a store call of the pass was answered with an unclassified error
FaultSeen == \E i \in 1..Len(calls) : calls[i].ans = "Other"

\* the store as an earlier run of the operator left it (combined topology)
InstalledJobs ==
    [n \in JobNames |->
        IF n = "curator"
        THEN [exists |-> TRUE, name |-> n, schedule |-> defaultSchedule,
              suspend |-> "nil", image |-> CuratorImage,
              resources |-> defaultResources, rv |-> 1]
        ELSE Absent]

\* the pass returns r
Return(r) ==
    /\ pc' = "done"
    /\ result' = r
    /\ ji' = 0
    /\ attempt' = 0
    /\ current' = Absent
    /\ curOwner' = [exists |-> FALSE, rv |-> 0, status |-> NoStatus]
    /\ curatorStatus' = NoStatus

TypeOK ==
    /\ owner \in [exists : BOOLEAN, rv : Nat,
                  status : [JobNames -> (Schedules \cup {""}) \X (Suspends \cup {""})]]
    /\ statics \in [StaticKinds -> {"absent", "desired", "drifted"}]
    /\ \A n \in JobNames : jobs[n] = Absent \/
          (jobs[n].exists /\ jobs[n].name = n /\ jobs[n].rv >= 1)
    /\ cluster \in ClusterSpecs
    /\ result \in {"none", "nil", "err"}
    /\ pass \in 0..MaxPasses

(* -------------------------------- Init --------------------------------- *)
\* no call of isCuratorDifferent on its own
NoDiff ==
    [current |-> Absent, desired |-> Absent, out |-> Absent,
     different |-> FALSE, done |-> FALSE]

\* the store, and the pass not yet started
InitPass ==
    /\ owner = [exists |-> TRUE, rv |-> 1, status |-> NoStatus]
    /\ cluster = [type |-> "", managementState |-> ManagementStateManaged,
                  allInOne |-> TRUE, schedule |-> ""]
    /\ \/ /\ statics = [k \in StaticKinds |-> "absent"]
          /\ jobs = [n \in JobNames |-> Absent]
       \/ /\ statics = [k \in StaticKinds |-> "desired"]
          /\ jobs = InstalledJobs
    /\ pc = "idle"
    /\ ji = 0
    /\ attempt = 0
    /\ current = Absent
    /\ curOwner = [exists |-> FALSE, rv |-> 0, status |-> NoStatus]
    /\ curatorStatus = NoStatus
    /\ result = "none"
    /\ rmErr = "none"
    /\ calls = <<>>
    /\ pass = 0
    /\ prev = [cluster |-> cluster, quiet |-> FALSE]
    /\ ext = 0
    /\ pre = [jobs |-> jobs, statics |-> statics]
    /\ extSeen = FALSE

Init == InitPass /\ diff = NoDiff

(* ------------------------- the reconciliation pass --------------------- *)
history == <<pass, prev, pre>>
store == <<owner, statics, jobs>>
NoOwner == [exists |-> FALSE, rv |-> 0, status |-> NoStatus]

\* the external trigger calls CreateOrUpdateCuration(c), c the spec of the
\* ClusterLogging object as its user last wrote it; the branch on the curation
\* type and, for removeCurator, on the management state
StartPass(c) ==
    /\ pc \in {"idle", "done"}
    /\ pass < MaxPasses
    /\ owner.exists
    /\ cluster' = c
    /\ pass' = pass + 1
    /\ prev' = [cluster |-> cluster, quiet |-> pass > 0 /\ ~extSeen /\ ~FaultSeen]
    /\ pre' = [jobs |-> jobs, statics |-> statics]
    /\ calls' = <<>>
    /\ extSeen' = FALSE
    /\ IF CurationEnabled(c)
       THEN /\ pc' = "createSA"
            /\ result' = "none"
            /\ rmErr' = "none"
            /\ UNCHANGED locals
       ELSE IF RemoveGate(c)
       THEN /\ pc' = "remove"
            /\ ji' = 1
            /\ result' = "none"
            /\ rmErr' = "none"
            /\ UNCHANGED <<attempt, current, curOwner, curatorStatus>>
       ELSE /\ rmErr' = "nil"
            /\ Return(ResultAfterRemove("nil"))
    /\ UNCHANGED <<store, ext, diff>>

\* what sdk.Create answers
CreateAnswers == {"OK", "AlreadyExists", "Other"}

\* sdk.Create of one of the static resources; fatal: the answers after which
\* the caller returns an error
CreateStatic(at, kind, next, fatal) ==
    /\ pc = at
    /\ \E fault \in FaultChoices :
        LET ans == IF fault THEN "Other"
                   ELSE IF statics[kind] # "absent" THEN "AlreadyExists"
                   ELSE "OK"
            upd == ans = "AlreadyExists" /\ OnAlreadyExists(kind) = "update"
            created == Append(calls, Call("Create", kind, "curator", ans, Absent))
        IN  /\ statics' = IF ans = "OK" \/ upd
                          THEN [statics EXCEPT ![kind] = "desired"]
                          ELSE statics
            /\ calls' = IF upd
                        THEN Append(created,
                                    Call("Update", kind, "curator", "OK", Absent))
                        ELSE created
            /\ IF ans \in fatal
               THEN Return("err")
               ELSE /\ pc' = next
                    /\ result' = result
                    /\ ji' = IF next = "createJob" THEN 1 ELSE ji
                    /\ UNCHANGED <<attempt, current, curOwner, curatorStatus>>
    /\ UNCHANGED <<owner, jobs, cluster, rmErr, history, ext, extSeen, diff>>

createOrUpdateCuratorServiceAccount ==
    CreateStatic("createSA", "ServiceAccount", "createCM",
                 {a \in CreateAnswers : IsFatalCreateError(a)})

createOrUpdateCuratorConfigMap ==
    CreateStatic("createCM", "ConfigMap", "createJob",
                 {a \in CreateAnswers : IsFatalCreateError(a)})

\* utils.CreateOrUpdateSecret
createOrUpdateCuratorSecret ==
    CreateStatic("createSecret", "Secret", "getStatus",
                 {a \in CreateAnswers : IsFatalSecretError(a)})

\* after a job is dealt with: the next job of the topology, or the secret
NextJob ==
    IF ji < Len(CronJobNames(cluster))
    THEN /\ pc' = "createJob"
         /\ ji' = ji + 1
    ELSE /\ pc' = "createSecret"
         /\ ji' = 0

\* createOrUpdateCuratorCronJob: sdk.Create(curatorCronJob)
CreateJob ==
    /\ pc = "createJob"
    /\ \E fault \in FaultChoices :
        LET n == CronJobNames(cluster)[ji]
            desired == newCuratorCronJob(cluster, n)
            ans == IF fault THEN "Other"
                   ELSE IF jobs[n].exists THEN "AlreadyExists"
                   ELSE "OK"
        IN  /\ jobs' = IF ans = "OK" THEN [jobs EXCEPT ![n] = [desired EXCEPT !.rv = 1]]
                       ELSE jobs
            /\ calls' = Append(calls, Call("Create", "CronJob", n, ans, desired))
            /\ IF IsFatalCreateError(ans)
               THEN Return("err")
               ELSE /\ result' = result
                    /\ IF UpdateGate(cluster)
                       THEN /\ pc' = "getJob"
                            /\ attempt' = 1
                            /\ ji' = ji
                       ELSE /\ NextJob
                            /\ attempt' = attempt
                    /\ UNCHANGED <<current, curOwner, curatorStatus>>
    /\ UNCHANGED <<owner, statics, cluster, rmErr, history, ext, extSeen, diff>>

\* updateCuratorIfRequired: sdk.Get(current), then isCuratorDifferent
GetJob ==
    /\ pc = "getJob"
    /\ \E fault \in FaultChoices :
        LET n == CronJobNames(cluster)[ji]
            desired == newCuratorCronJob(cluster, n)
            ans == IF fault THEN "Other"
                   ELSE IF ~jobs[n].exists THEN "NotFound"
                   ELSE "OK"
        IN  /\ calls' = Append(calls, Call("Get", "CronJob", n, ans,
                                           IF ans = "OK" THEN jobs[n] ELSE Absent))
            /\ IF ans = "OK"
               THEN /\ result' = result
                    /\ curOwner' = curOwner
                    /\ curatorStatus' = curatorStatus
                    /\ IF isCuratorDifferent(jobs[n], desired).different
                       THEN /\ pc' = "updateJob"
                            /\ current' = jobs[n]
                            /\ UNCHANGED <<ji, attempt>>
                       ELSE /\ NextJob
                            /\ current' = Absent
                            /\ attempt' = 0
               ELSE IF IsBenignGetError(ans)
               THEN /\ result' = result
                    /\ NextJob
                    /\ attempt' = 0
                    /\ UNCHANGED <<current, curOwner, curatorStatus>>
               ELSE Return("err")
    /\ UNCHANGED <<store, cluster, rmErr, history, ext, extSeen, diff>>

\* updateCuratorIfRequired: sdk.Update(current), inside retry.RetryOnConflict;
\* the store refuses an object whose resource version is not the stored one
\* (an object without a resource version is written unconditionally)
UpdateJob ==
    /\ pc = "updateJob"
    /\ \E fault \in FaultChoices :
        LET n == CronJobNames(cluster)[ji]
            desired == newCuratorCronJob(cluster, n)
            obj == isCuratorDifferent(current, desired).current
            ans == IF fault THEN "Other"
                   ELSE IF ~jobs[n].exists THEN "NotFound"
                   ELSE IF obj.rv # 0 /\ jobs[n].rv # obj.rv THEN "Conflict"
                   ELSE "OK"
        IN  /\ jobs' = IF ans = "OK"
                       THEN [jobs EXCEPT ![n] = [obj EXCEPT !.rv = jobs[n].rv + 1]]
                       ELSE jobs
            /\ calls' = Append(calls, Call("Update", "CronJob", n, ans, obj))
            /\ IF ans = "OK"
               THEN /\ result' = result
                    /\ NextJob
                    /\ attempt' = 0
                    /\ current' = Absent
                    /\ UNCHANGED <<curOwner, curatorStatus>>
               ELSE IF IsConflict(ans) /\ BudgetLeft(attempt)
               THEN /\ result' = result
                    /\ pc' = "getJob"
                    /\ attempt' = attempt + 1
                    /\ current' = Absent
                    /\ UNCHANGED <<ji, curOwner, curatorStatus>>
               ELSE Return("err")
    /\ UNCHANGED <<owner, statics, cluster, rmErr, history, ext, extSeen, diff>>

\* getCuratorStatus(cluster.Namespace)
GetStatus ==
    /\ pc = "getStatus"
    /\ \E fault \in FaultChoices :
        /\ calls' = Append(calls, Call("List", "CronJob", "", 
                                       IF fault THEN "Other" ELSE "OK", Absent))
        /\ IF fault
           THEN Return("err")
           ELSE /\ pc' = "statusGet"
                /\ curatorStatus' = DerivedStatus(jobs)
                /\ attempt' = 1
                /\ result' = result
                /\ UNCHANGED <<ji, current, curOwner>>
    /\ UNCHANGED <<store, cluster, rmErr, history, ext, extSeen, diff>>

\* the retried closure: utils.DoesClusterLoggingExist and reflect.DeepEqual
StatusGet ==
    /\ pc = "statusGet"
    /\ \E fault \in FaultChoices :
        LET ans == IF fault THEN "Other"
                   ELSE IF ~owner.exists THEN "NotFound"
                   ELSE "OK"
            got == IF ans = "OK" THEN [Absent EXCEPT !.rv = owner.rv] ELSE Absent
        IN  /\ calls' = Append(calls, Call("Get", "ClusterLogging", "", ans, got))
            /\ IF ans = "OK" /\ StatusDiffers(curatorStatus, owner.status)
               THEN /\ pc' = "statusUpdate"
                    /\ curOwner' = [exists |-> TRUE, rv |-> owner.rv,
                                    status |-> owner.status]
                    /\ result' = result
                    /\ UNCHANGED <<ji, attempt, current, curatorStatus>>
               ELSE Return("nil")
    /\ UNCHANGED <<store, cluster, rmErr, history, ext, extSeen, diff>>

\* cluster.Status.Curation.CuratorStatus = curatorStatus; sdk.Update(cluster)
StatusUpdate ==
    /\ pc = "statusUpdate"
    /\ \E fault \in FaultChoices :
        LET ans == IF fault THEN "Other"
                   ELSE IF ~owner.exists THEN "NotFound"
                   ELSE IF owner.rv # curOwner.rv THEN "Conflict"
                   ELSE "OK"
        IN  /\ owner' = IF ans = "OK"
                        THEN [owner EXCEPT !.status = curatorStatus,
                                           !.rv = owner.rv + 1]
                        ELSE owner
            /\ calls' = Append(calls, Call("Update", "ClusterLogging", "", ans,
                                           [Absent EXCEPT !.rv = curOwner.rv]))
            /\ IF ans = "OK"
               THEN Return("nil")
               ELSE IF IsConflict(ans) /\ BudgetLeft(attempt)
               THEN /\ pc' = "statusGet"
                    /\ attempt' = attempt + 1
                    /\ curOwner' = NoOwner
                    /\ result' = result
                    /\ UNCHANGED <<ji, current, curatorStatus>>
               ELSE Return("err")
    /\ UNCHANGED <<statics, jobs, cluster, rmErr, history, ext, extSeen, diff>>

\* removeCurator: utils.RemoveServiceAccount, RemoveConfigMap, RemoveSecret,
\* RemoveCronJob, each an sdk.Delete
Remove ==
    /\ pc = "remove"
    /\ \E fault \in FaultChoices :
        LET t == RemoveTargets[ji]
            there == IF t.kind = "CronJob" THEN jobs[t.name].exists
                     ELSE statics[t.kind] # "absent"
            ans == IF fault THEN "Other"
                   ELSE IF ~there THEN "NotFound"
                   ELSE "OK"
        IN  /\ statics' = IF ans = "OK" /\ t.kind # "CronJob"
                          THEN [statics EXCEPT ![t.kind] = "absent"]
                          ELSE statics
            /\ jobs' = IF ans = "OK" /\ t.kind = "CronJob"
                       THEN [jobs EXCEPT ![t.name] = Absent]
                       ELSE jobs
            /\ calls' = Append(calls, Call("Delete", t.kind, t.name, ans, Absent))
            /\ IF IsFatalDeleteError(ans)
               THEN /\ rmErr' = "err"
                    /\ Return(ResultAfterRemove("err"))
               ELSE IF ji < Len(RemoveTargets)
               THEN /\ pc' = "remove"
                    /\ ji' = ji + 1
                    /\ rmErr' = rmErr
                    /\ result' = result
                    /\ UNCHANGED <<attempt, current, curOwner, curatorStatus>>
               ELSE /\ rmErr' = "nil"
                    /\ Return(ResultAfterRemove("nil"))
    /\ UNCHANGED <<owner, cluster, history, ext, extSeen, diff>>

(* ----------------------------- other actors ---------------------------- *)
External ==
    /\ ext < MaxExternal
    /\ ext' = ext + 1
    /\ extSeen' = TRUE
    /\ UNCHANGED <<pc, cluster, locals, result, rmErr, calls, history, diff>>

\* a user or another controller edits one field of a live CronJob
ExtEditJob(n) ==
    /\ jobs[n].exists
    /\ \E j \in [exists : {TRUE}, name : {n}, schedule : Schedules,
                 suspend : Suspends, image : Images, resources : Resources,
                 rv : {jobs[n].rv + 1}] :
        /\ Cardinality({f \in {"schedule", "suspend", "image", "resources"} :
                            j[f] # jobs[n][f]}) = 1
        /\ jobs' = [jobs EXCEPT ![n] = j]
    /\ External
    /\ UNCHANGED <<owner, statics>>

ExtDeleteJob(n) ==
    /\ jobs[n].exists
    /\ jobs' = [jobs EXCEPT ![n] = Absent]
    /\ External
    /\ UNCHANGED <<owner, statics>>

\* the content of a static resource is edited
ExtEditStatic(k) ==
    /\ statics[k] = "desired"
    /\ statics' = [statics EXCEPT ![k] = "drifted"]
    /\ External
    /\ UNCHANGED <<owner, jobs>>

\* another handler writes its part of the ClusterLogging status, or the user
\* edits the spec
ExtTouchOwner ==
    /\ owner.exists
    /\ owner' = [owner EXCEPT !.rv = owner.rv + 1]
    /\ External
    /\ UNCHANGED <<statics, jobs>>

ExtDeleteOwner ==
    /\ owner.exists
    /\ owner' = [owner EXCEPT !.exists = FALSE]
    /\ External
    /\ UNCHANGED <<statics, jobs>>

Pass ==
    \/ \E c \in ClusterSpecs : StartPass(c)
    \/ createOrUpdateCuratorServiceAccount
    \/ createOrUpdateCuratorConfigMap
    \/ CreateJob
    \/ GetJob
    \/ UpdateJob
    \/ createOrUpdateCuratorSecret
    \/ GetStatus
    \/ StatusGet
    \/ StatusUpdate
    \/ Remove

Others ==
    \/ \E n \in JobNames : ExtEditJob(n)
    \/ \E n \in JobNames : ExtDeleteJob(n)
    \/ \E k \in StaticKinds : ExtEditStatic(k)
    \/ ExtTouchOwner
    \/ ExtDeleteOwner

Next == Pass \/ Others

Spec == Init /\ [][Next]_vars

(* ------------- the pass against a persistent concurrent writer ---------- *)
\* the edits of one field of a live CronJob, each a new version: of the
\* schedule, the image or the resources (the suspend flag is left: with the
\* desired flag nil it is, like the resources, a field the diff does not look at)
JobEdits(j) ==
    {e \in [exists : {TRUE}, name : {j.name}, schedule : Schedules,
            suspend : {j.suspend}, image : Images, resources : Resources,
            rv : {j.rv + 1}] :
        Cardinality({f \in {"schedule", "suspend", "image", "resources"} :
                        e[f] # j[f]}) = 1}

\* another actor edits the CronJob between the Get and the Update of an
\* attempt of updateCuratorIfRequired
ConcurrentWriteJob ==
    /\ pc = "updateJob"
    /\ ext < MaxWrites
    /\ LET n == CronJobNames(cluster)[ji]
       IN  /\ jobs[n].exists
           /\ jobs[n].rv = current.rv
           /\ \E e \in JobEdits(jobs[n]) : jobs' = [jobs EXCEPT ![n] = e]
    /\ ext' = ext + 1
    /\ extSeen' = TRUE
    /\ UNCHANGED <<owner, statics, pc, cluster, locals, result, rmErr, calls,
                   history, diff>>

\* another handler writes the ClusterLogging object between the fetch and the
\* Update of an attempt of the status closure
ConcurrentWriteOwner ==
    /\ pc = "statusUpdate"
    /\ ext < MaxWrites
    /\ owner.exists
    /\ owner.rv = curOwner.rv
    /\ owner' = [owner EXCEPT !.rv = owner.rv + 1]
    /\ ext' = ext + 1
    /\ extSeen' = TRUE
    /\ UNCHANGED <<statics, jobs, pc, cluster, locals, result, rmErr, calls,
                   history, diff>>

NextRetry == Pass \/ ConcurrentWriteJob \/ ConcurrentWriteOwner

SpecRetry == Init /\ [][NextRetry]_vars

(* ------------- repeated reconciliation in fully-managed mode ------------ *)
\* the ClusterLogging specs with the curation enabled in managed mode
ManagedSpecs ==
    {c \in ClusterSpecs : c.type = CurationTypeCurator
                          /\ c.managementState = ManagementStateManaged}

\* the steps of CreateOrUpdateCuration on such a ClusterLogging
ManagedPass ==
    \/ \E c \in ManagedSpecs : StartPass(c)
    \/ createOrUpdateCuratorServiceAccount
    \/ createOrUpdateCuratorConfigMap
    \/ CreateJob
    \/ GetJob
    \/ UpdateJob
    \/ createOrUpdateCuratorSecret
    \/ GetStatus
    \/ StatusGet
    \/ StatusUpdate

NextLive == ManagedPass \/ Others

\* the external trigger calls CreateOrUpdateCuration again and again, and a
\* call that has started runs to its return (every store call is synchronous)
SpecLive == Init /\ [][NextLive]_vars /\ WF_vars(ManagedPass)

(* ---------------------- isCuratorDifferent on its own ------------------- *)
\* the live CronJobs sdk.Get may return
LiveJobs ==
    [exists : {TRUE}, name : {"curator"}, schedule : Schedules,
     suspend : Suspends, image : Images, resources : Resources, rv : {1}]

\* the desired CronJobs a caller may pass (Spec.Suspend set or not)
DesiredJobs ==
    [exists : {TRUE}, name : {"curator"}, schedule : Schedules,
     suspend : Suspends, image : Images, resources : {defaultResources},
     rv : {0}]

InitDiff ==
    /\ InitPass
    /\ \E cur \in LiveJobs, des \in DesiredJobs :
          diff = [NoDiff EXCEPT !.current = cur, !.desired = des]

\* current, different := isCuratorDifferent(current, desired)
Compare ==
    /\ ~diff.done
    /\ LET r == isCuratorDifferent(diff.current, diff.desired)
       IN  diff' = [diff EXCEPT !.out = r.current,
                                !.different = r.different,
                                !.done = TRUE]
    /\ UNCHANGED <<store, pc, cluster, locals, result, rmErr, calls, history,
                   ext, extSeen>>

NextDiff == Compare

SpecDiff == InitDiff /\ [][NextDiff]_vars

(* ------------------------------ properties ----------------------------- *)
Unmanaged(c) == c.managementState # ManagementStateManaged
Teardown(c) == c.type # CurationTypeCurator /\ ~Unmanaged(c)
Calls == 1..Len(calls)
IsCall(i, op, kind) == calls[i].op = op /\ calls[i].kind = kind
ManagedKinds == StaticKinds \cup {"CronJob"}
Topology(c) == IF c.allInOne THEN {"curator"} ELSE {"curator-app", "curator-infra"}

\* the monitored fields in which a live job differs from the desired one
MonitoredDiff(live, desired) ==
    {f \in {"schedule", "image"} : live[f] # desired[f]}
    \cup (IF live.suspend # "nil" /\ desired.suspend # "nil"
             /\ live.suspend # desired.suspend
          THEN {"suspend"} ELSE {})

\* C1: a Create of the service account, the config map or a CronJob that is
\* answered AlreadyExists is a success: the pass does not return an error at
\* that call, and the resource of that name is still there with the content
\* it had when the pass started (it is neither duplicated nor overwritten).
C1_IdempotentCreation ==
    \A i \in Calls :
        LET c == calls[i]
        IN  (/\ c.op = "Create"
             /\ c.kind \in {"ServiceAccount", "ConfigMap", "CronJob"}
             /\ c.ans = "AlreadyExists"
             /\ i = Len(calls))
            => /\ ~(pc = "done" /\ result = "err")
               /\ ~extSeen =>
                    IF c.kind = "CronJob"
                    THEN jobs[c.name].exists /\ jobs[c.name] = pre.jobs[c.name]
                    ELSE statics[c.kind] # "absent"
                         /\ statics[c.kind] = pre.statics[c.kind]

\* C1 witness: a second pass with the same ClusterLogging whose Create of an
\* existing CronJob was answered AlreadyExists, and which returned nil
C1_Witness ==
    /\ pc = "done" /\ result = "nil" /\ pass = 2 /\ prev.cluster = cluster
    /\ \E i \in Calls : IsCall(i, "Create", "CronJob") /\ calls[i].ans = "AlreadyExists"
    /\ \E i \in Calls : IsCall(i, "Create", "ServiceAccount") /\ calls[i].ans = "AlreadyExists"

\* C2: a pass with the curation enabled that follows a pass with the same
\* ClusterLogging, with no write of another actor and no failed store call
\* since that pass started, issues no Update at all.
C2_NoOpConvergence ==
    (/\ pc = "done" /\ pass >= 2
     /\ CurationEnabled(cluster)
     /\ prev.cluster = cluster
     /\ prev.quiet
     /\ ~extSeen)
    => \A i \in Calls : calls[i].op # "Update"

\* C2 witness: such a second pass in managed mode, which fetched a live job
C2_Witness ==
    /\ pc = "done" /\ pass = 2 /\ result = "nil"
    /\ CurationEnabled(cluster) /\ ~Unmanaged(cluster)
    /\ prev.cluster = cluster /\ prev.quiet /\ ~extSeen
    /\ \E i \in Calls : IsCall(i, "Get", "CronJob") /\ calls[i].ans = "OK"
    /\ \E i \in Calls : IsCall(i, "Get", "ClusterLogging") /\ calls[i].ans = "OK"

\* C3: in managed mode, when the fetched job differs from the desired one in
\* exactly one monitored field, that field being the schedule or the image,
\* and no Update of that job is answered Conflict, the pass issues exactly
\* one Update for the job, right after the fetch; the object it submits has
\* the desired value in that field and the fetched values in the other two
\* monitored fields, and so has the stored job once the Update succeeded.
C3_DriftCorrection ==
    \A i \in Calls :
        LET c == calls[i]
            n == c.name
            desired == newCuratorCronJob(cluster, n)
            D == MonitoredDiff(c.obj, desired)
            ups == {k \in Calls : IsCall(k, "Update", "CronJob") /\ calls[k].name = n}
        IN  (/\ IsCall(i, "Get", "CronJob") /\ c.ans = "OK"
             /\ ~Unmanaged(cluster)
             /\ Cardinality(D) = 1
             /\ \A k \in ups : calls[k].ans # "Conflict"
             /\ i < Len(calls))
            => /\ ups = {i + 1}
               /\ \A f \in D : calls[i + 1].obj[f] = desired[f]
               /\ \A f \in {"schedule", "suspend", "image"} \ D :
                     calls[i + 1].obj[f] = c.obj[f]
               /\ (calls[i + 1].ans = "OK" /\ i + 1 = Len(calls) /\ ~extSeen)
                  => /\ \A f \in D : jobs[n][f] = desired[f]
                     /\ \A f \in {"schedule", "suspend", "image"} \ D :
                           jobs[n][f] = c.obj[f]

\* C3 witness: a pass that returned nil after one successful Update of a job
\* whose image alone differed from the desired one
C3_Witness ==
    /\ pc = "done" /\ result = "nil"
    /\ \E i \in Calls :
        /\ IsCall(i, "Get", "CronJob") /\ calls[i].ans = "OK"
        /\ MonitoredDiff(calls[i].obj, newCuratorCronJob(cluster, calls[i].name))
             = {"image"}
        /\ i < Len(calls)
        /\ IsCall(i + 1, "Update", "CronJob") /\ calls[i + 1].ans = "OK"
        /\ jobs[calls[i].name].image = CuratorImage

\* C3 witness, schedule: the same with the schedule, the desired schedule
\* being the default
C3_WitnessSchedule ==
    /\ pc = "done" /\ result = "nil" /\ cluster.schedule = ""
    /\ \E i \in Calls :
        /\ IsCall(i, "Get", "CronJob") /\ calls[i].ans = "OK"
        /\ calls[i].obj.schedule = "0 0 * * *"
        /\ calls[i].obj.image = CuratorImage
        /\ i < Len(calls)
        /\ IsCall(i + 1, "Update", "CronJob") /\ calls[i + 1].ans = "OK"
        /\ jobs[calls[i].name].schedule = defaultSchedule

\* C4: a step in which the pass issues an Update of a CronJob submits the
\* object fetched in the same attempt with at most schedule, suspend flag and
\* image changed; when the Update succeeds the stored job has the name and
\* the container resources that were fetched, whatever the desired resources
\* are, and no other resource of the store changes.
C4_UpdateFrame ==
    [][(pc = "updateJob" /\ Len(calls') = Len(calls) + 1)
       => LET u == calls'[Len(calls')]
              n == u.name
          IN  /\ IsCall(Len(calls), "Get", "CronJob")
              /\ calls[Len(calls)].name = n
              /\ calls[Len(calls)].obj = current
              /\ u.op = "Update" /\ u.kind = "CronJob"
              /\ u.obj.name = current.name
              /\ u.obj.resources = current.resources
              /\ u.obj.exists = current.exists
              /\ u.ans = "OK" =>
                    /\ jobs'[n].name = current.name
                    /\ jobs'[n].resources = current.resources
                    /\ jobs'[n].exists
              /\ \A m \in JobNames \ {n} : jobs'[m] = jobs[m]
              /\ statics' = statics]_vars

\* C4 witness: a job whose resources were edited by hand has been updated by
\* the pass (its schedule was corrected) and still has the edited resources
C4_Witness ==
    /\ Len(calls) >= 2
    /\ LET u == calls[Len(calls)]
           g == calls[Len(calls) - 1]
       IN  /\ u.op = "Update" /\ u.kind = "CronJob" /\ u.ans = "OK"
           /\ g.op = "Get" /\ g.obj.resources = "manual"
           /\ g.obj.schedule # u.obj.schedule
           /\ jobs[u.name].resources = "manual"
           /\ newCuratorCronJob(cluster, u.name).resources # "manual"
           /\ jobs[u.name].schedule = newCuratorCronJob(cluster, u.name).schedule

\* C5: when the Get of updateCuratorIfRequired is answered NotFound, the pass
\* has not returned an error there and goes on: the next store call of the
\* pass, if any, is the Create of the next job of the topology or of the
\* secret, never an Update or a Create of the job that was not found.
C5_BenignAbsence ==
    \A i \in Calls :
        (IsCall(i, "Get", "CronJob") /\ calls[i].ans = "NotFound")
        => IF i = Len(calls)
           THEN pc \in {"createJob", "createSecret"} /\ result = "none"
           ELSE /\ calls[i + 1].op = "Create"
                /\ \/ calls[i + 1].kind = "Secret"
                   \/ /\ calls[i + 1].kind = "CronJob"
                      /\ calls[i + 1].name # calls[i].name

\* C5 witness: a pass created a job, the job was deleted before the fetch,
\* and the pass returned nil
C5_Witness ==
    /\ pc = "done" /\ result = "nil"
    /\ \E i \in Calls :
        /\ i > 1
        /\ IsCall(i, "Get", "CronJob") /\ calls[i].ans = "NotFound"
        /\ IsCall(i - 1, "Create", "CronJob") /\ calls[i - 1].ans = "OK"
        /\ calls[i - 1].name = calls[i].name

\* the pass that follows a change of the topology from combined to split, the
\* curation enabled before and after, the combined job being there
TopologySwitch ==
    /\ pass >= 2
    /\ CurationEnabled(prev.cluster) /\ prev.cluster.allInOne
    /\ CurationEnabled(cluster) /\ ~cluster.allInOne
    /\ pre.jobs["curator"].exists
    /\ ~extSeen

\* C6: during and after the pass that follows a switch from combined to
\* split topology, no Delete has been issued and the job "curator" is as it
\* was when the pass started; when that pass has returned nil, it has issued
\* a Create for "curator-app" and for "curator-infra" (answered OK where the
\* job was absent) and both jobs are in the store.
C6_TopologySwitch ==
    TopologySwitch =>
        /\ \A i \in Calls : calls[i].op # "Delete"
        /\ jobs["curator"] = pre.jobs["curator"]
        /\ (pc = "done" /\ result = "nil") =>
              \A n \in {"curator-app", "curator-infra"} :
                  /\ jobs[n].exists
                  /\ \E i \in Calls :
                        /\ IsCall(i, "Create", "CronJob") /\ calls[i].name = n
                        /\ calls[i].ans \in {"OK", "AlreadyExists"}
                        /\ ~pre.jobs[n].exists => calls[i].ans = "OK"

\* C6 witness: such a pass has returned nil and created both split jobs
C6_Witness ==
    /\ TopologySwitch /\ pc = "done" /\ result = "nil"
    /\ ~pre.jobs["curator-app"].exists /\ ~pre.jobs["curator-infra"].exists
    /\ jobs["curator-app"].exists /\ jobs["curator-infra"].exists
    /\ jobs["curator"].exists

\* C7 (the claim as stated): a teardown in managed mode in which every Delete
\* succeeded or was answered NotFound has issued its deletions in the order
\* service account, config map, secret, CronJobs, and afterwards every job
\* of the current topology is absent from the store.
C7_TeardownComplete ==
    (pc = "done" /\ pass >= 1 /\ Teardown(cluster) /\ ~FaultSeen /\ ~extSeen)
    => /\ Len(calls) >= 4
       /\ \A i \in Calls : calls[i].op = "Delete"
       /\ calls[1].kind = "ServiceAccount"
       /\ calls[2].kind = "ConfigMap"
       /\ calls[3].kind = "Secret"
       /\ \A i \in 4..Len(calls) : calls[i].kind = "CronJob"
       /\ \A n \in Topology(cluster) : ~jobs[n].exists

\* the four resources removeCurator looks at were absent when the pass started
AllRemovedBefore ==
    /\ \A k \in StaticKinds : pre.statics[k] = "absent"
    /\ ~pre.jobs["curator"].exists

\* C8: a teardown in managed mode without a failed store call returns nil
\* (removeCurator and CreateOrUpdateCuration); when it follows a teardown that
\* did so and finds the service account, the config map, the secret and the
\* job "curator" absent, each of its four Deletes is answered NotFound and the
\* store is as it was when it started.
C8_TeardownIdempotent ==
    /\ (pc = "done" /\ pass >= 1 /\ Teardown(cluster) /\ ~FaultSeen)
       => rmErr = "nil" /\ result = "nil"
    /\ (/\ pc = "done" /\ pass >= 2
        /\ Teardown(cluster) /\ Teardown(prev.cluster)
        /\ prev.quiet /\ ~extSeen /\ ~FaultSeen
        /\ AllRemovedBefore)
       => /\ Len(calls) = 4
          /\ \A i \in Calls : calls[i].op = "Delete" /\ calls[i].ans = "NotFound"
          /\ statics = pre.statics
          /\ jobs = pre.jobs

\* C8 witness: the second of two teardowns, the first of which deleted the
\* installed resources, has returned nil
C8_Witness ==
    /\ pc = "done" /\ pass = 2 /\ result = "nil" /\ rmErr = "nil"
    /\ Teardown(cluster) /\ Teardown(prev.cluster)
    /\ prev.quiet /\ ~extSeen /\ ~FaultSeen
    /\ AllRemovedBefore
    /\ Len(calls) = 4
    /\ ext = 0

\* C9 (the claim as stated): when a Delete of the teardown is answered with
\* an error other than NotFound, no further Delete is issued in that pass and
\* CreateOrUpdateCuration returns that error.
C9_TeardownErrorReturned ==
    \A i \in Calls :
        (calls[i].op = "Delete" /\ calls[i].ans = "Other")
        => /\ i = Len(calls)
           /\ pc = "done"
           /\ result = "err"

\* C9: the part of the claim the code keeps: a failed Delete is the last
\* store call of the pass and removeCurator returns the error
C9_TeardownStops ==
    \A i \in Calls :
        (calls[i].op = "Delete" /\ calls[i].ans = "Other")
        => /\ i = Len(calls)
           /\ pc = "done"
           /\ rmErr = "err"

\* C10: a pass in unmanaged mode, the curation enabled or not, issues no
\* Delete and no Update of a service account, config map, secret or CronJob;
\* as long as no other actor writes, every such resource that was in the
\* store when the pass started is there with the same content.
C10_UnmanagedFreezes ==
    (pass >= 1 /\ Unmanaged(cluster))
    => /\ \A i \in Calls :
            /\ calls[i].op # "Delete"
            /\ ~(calls[i].op = "Update" /\ calls[i].kind \in ManagedKinds)
       /\ ~extSeen =>
            /\ \A k \in StaticKinds :
                  pre.statics[k] # "absent" => statics[k] = pre.statics[k]
            /\ \A n \in JobNames :
                  pre.jobs[n].exists => jobs[n] = pre.jobs[n]

\* C10 witness: a pass in unmanaged mode with the curation enabled has
\* returned nil while a live job of the topology differs from the desired one
C10_Witness ==
    /\ pc = "done" /\ result = "nil" /\ pass >= 1
    /\ Unmanaged(cluster) /\ CurationEnabled(cluster) /\ ~extSeen
    /\ \E n \in Topology(cluster) :
          /\ pre.jobs[n].exists
          /\ jobs[n] = pre.jobs[n]
          /\ MonitoredDiff(jobs[n], newCuratorCronJob(cluster, n)) # {}
    /\ \A k \in StaticKinds : pre.statics[k] # "absent"

\* C11: a step in which the pass issues an Update of the ClusterLogging
\* object follows, in the same attempt, a successful fetch of that object
\* whose stored status is not equal to the computed status; when the Update
\* succeeds the stored status was different from the computed one and is now
\* equal to it. No other step of the pass changes the stored status, so each
\* successful status Update is one change of the computed status with respect
\* to the status last written.
C11_StatusWriteSuppression ==
    [][/\ (Len(calls') = Len(calls) + 1
           /\ calls'[Len(calls')].op = "Update"
           /\ calls'[Len(calls')].kind = "ClusterLogging")
          => /\ pc = "statusUpdate"
             /\ Len(calls) >= 1
             /\ IsCall(Len(calls), "Get", "ClusterLogging")
             /\ calls[Len(calls)].ans = "OK"
             /\ curOwner.exists
             /\ curOwner.status # curatorStatus
             /\ calls'[Len(calls')].ans = "OK"
                  => /\ owner.status # curatorStatus
                     /\ owner'.status = curatorStatus
       /\ owner'.status # owner.status
          => /\ Len(calls') = Len(calls) + 1
             /\ calls'[Len(calls')].op = "Update"
             /\ calls'[Len(calls')].kind = "ClusterLogging"
             /\ calls'[Len(calls')].ans = "OK"]_vars

\* C11 witness: a second pass with the same ClusterLogging, after a pass that
\* wrote the status, has fetched the ClusterLogging object, found the stored
\* status equal to the computed one and returned nil without an Update
C11_Witness ==
    /\ pc = "done" /\ pass = 2 /\ result = "nil"
    /\ CurationEnabled(cluster) /\ prev.cluster = cluster /\ prev.quiet
    /\ owner.rv = 2
    /\ owner.status # NoStatus
    /\ owner.status = DerivedStatus(jobs)
    /\ IsCall(Len(calls), "Get", "ClusterLogging") /\ calls[Len(calls)].ans = "OK"

\* the Updates of the object of call i answered Conflict, up to call i
ConflictsUpTo(i) ==
    Cardinality({k \in 1..i : /\ calls[k].op = "Update"
                              /\ calls[k].kind = calls[i].kind
                              /\ calls[k].name = calls[i].name
                              /\ calls[k].ans = "Conflict"})

\* C12: when an Update of a CronJob or of the ClusterLogging object is
\* answered Conflict and it is not the fifth such answer of the loop, the pass
\* has not returned and its next store call is a Get of the same object; an
\* Update that follows that Get submits the object that Get returned (for a
\* CronJob: with the diff against the desired job applied to it), of a newer
\* version than the one refused. When it is the fifth, it is the last store
\* call of the pass and the pass has returned an error.
C12_ConflictRetry ==
    \A i \in Calls :
        LET c == calls[i]
            same(k) == calls[k].kind = c.kind /\ calls[k].name = c.name
        IN  (c.op = "Update" /\ c.ans = "Conflict")
            => IF ConflictsUpTo(i) < DefaultRetrySteps
               THEN IF i = Len(calls)
                    THEN pc \in {"getJob", "statusGet"} /\ result = "none"
                    ELSE /\ calls[i + 1].op = "Get" /\ same(i + 1)
                         /\ (/\ i + 2 <= Len(calls)
                             /\ calls[i + 2].op = "Update" /\ same(i + 2))
                            => /\ calls[i + 1].ans = "OK"
                               /\ calls[i + 2].obj.rv = calls[i + 1].obj.rv
                               /\ calls[i + 2].obj.rv > c.obj.rv
                               /\ c.kind = "CronJob"
                                    => calls[i + 2].obj =
                                         isCuratorDifferent(calls[i + 1].obj,
                                           newCuratorCronJob(cluster, c.name)).current
               ELSE i = Len(calls) /\ pc = "done" /\ result = "err"

\* C12 witness: every attempt of the retry loop of a CronJob was answered
\* Conflict and the pass has returned an error
C12_Witness ==
    /\ pc = "done" /\ result = "err"
    /\ IsCall(Len(calls), "Update", "CronJob")
    /\ calls[Len(calls)].ans = "Conflict"
    /\ ConflictsUpTo(Len(calls)) = DefaultRetrySteps

\* C12 witness, status: the same for the retry loop of the status
C12_WitnessStatus ==
    /\ pc = "done" /\ result = "err"
    /\ IsCall(Len(calls), "Update", "ClusterLogging")
    /\ calls[Len(calls)].ans = "Conflict"
    /\ ConflictsUpTo(Len(calls)) = DefaultRetrySteps

\* C13: every store call of a pass for the service account, the config map or
\* the secret is a Create when the curation is enabled (and never a Get or an
\* Update in any pass); as long as no other actor writes, a static resource
\* that was in the store when such a pass started, drifted or not, has the
\* content it had then.
C13_WriteOnceStatics ==
    /\ \A i \in Calls :
          calls[i].kind \in StaticKinds
          => /\ calls[i].op \notin {"Get", "Update"}
             /\ cluster.type = CurationTypeCurator => calls[i].op = "Create"
    /\ (pass >= 1 /\ cluster.type = CurationTypeCurator /\ ~extSeen)
       => \A k \in StaticKinds :
             pre.statics[k] # "absent" => statics[k] = pre.statics[k]

\* C13 witness: a pass in managed mode with the curation enabled has returned
\* nil; one of the static resources had drifted before it started, its Create
\* was answered AlreadyExists, and it is still drifted
C13_Witness ==
    /\ pc = "done" /\ result = "nil" /\ ~extSeen
    /\ cluster.type = CurationTypeCurator /\ ~Unmanaged(cluster)
    /\ \E k \in StaticKinds :
          /\ pre.statics[k] = "drifted"
          /\ statics[k] = "drifted"
          /\ \E i \in Calls : /\ IsCall(i, "Create", k)
                               /\ calls[i].ans = "AlreadyExists"

\* the store calls of the status synchronizer
IsStatusCall(i) == calls[i].kind = "ClusterLogging" \/ calls[i].op = "List"

\* the store calls that create, fetch or update a CronJob
IsJobCall(i) == calls[i].kind = "CronJob" /\ calls[i].op # "List"

\* C14 (the claim as stated): in a pass with the curation enabled every store
\* call for the service account, the config map or the secret comes before
\* every store call for a CronJob, and every store call for a CronJob before
\* every call of the status synchronizer; in a pass with the curation not
\* enabled every store call is a Delete.
C14_ReconciliationOrder ==
    pass >= 1 =>
        IF cluster.type = CurationTypeCurator
        THEN \A i, j \in Calls :
                /\ (calls[i].kind \in StaticKinds /\ IsJobCall(j)) => i < j
                /\ (IsJobCall(i) /\ IsStatusCall(j)) => i < j
                /\ (calls[i].kind \in StaticKinds /\ IsStatusCall(j)) => i < j
        ELSE \A i \in Calls : calls[i].op = "Delete"

\* C14: the order the code keeps: service account, config map, CronJobs,
\* secret, status
C14_CodeOrder ==
    (pass >= 1 /\ cluster.type = CurationTypeCurator) =>
        \A i, j \in Calls :
            LET rank(k) == IF calls[k].kind = "ServiceAccount" THEN 1
                           ELSE IF calls[k].kind = "ConfigMap" THEN 2
                           ELSE IF IsJobCall(k) THEN 3
                           ELSE IF calls[k].kind = "Secret" THEN 4
                           ELSE 5
            IN  i < j => rank(i) <= rank(j)

\* a store call answered with an error that is none of the benign ones
\* (AlreadyExists on Create, NotFound on Get or Delete, Conflict on Update)
IsFatalAnswer(c) ==
    /\ c.ans # "OK"
    /\ ~(c.op = "Create" /\ c.ans = "AlreadyExists")
    /\ ~(c.op \in {"Get", "Delete"} /\ c.ans = "NotFound")
    /\ ~(c.op = "Update" /\ c.ans = "Conflict")

\* what the pass created before it returned is still in the store
CreatedStays ==
    ~extSeen =>
        \A k \in Calls :
            (calls[k].op = "Create" /\ calls[k].ans = "OK")
            => IF calls[k].kind = "CronJob" THEN jobs[calls[k].name].exists
               ELSE statics[calls[k].kind] # "absent"

\* C15 (the claim as stated): a store call answered with a fatal error is
\* the last store call of the pass (it is not retried, and no later step runs:
\* after a failure on "curator-app" there is no call for "curator-infra"), the
\* pass has returned an error, and what the pass created before is still in
\* the store.
C15_FatalPropagation ==
    \A i \in Calls :
        IsFatalAnswer(calls[i])
        => /\ i = Len(calls)
           /\ pc = "done"
           /\ result = "err"
           /\ CreatedStays

\* C15: what the code keeps: the same for every store call but the fetch of
\* the ClusterLogging object in the status closure and the Deletes of
\* removeCurator, after whose failure the pass returns nil
C15_CodePropagation ==
    \A i \in Calls :
        IsFatalAnswer(calls[i])
        => /\ i = Len(calls)
           /\ pc = "done"
           /\ result = IF calls[i].op = "Delete" \/ IsCall(i, "Get", "ClusterLogging")
                       THEN "nil" ELSE "err"
           /\ CreatedStays

\* C15: a pass in which the fetch of the ClusterLogging object failed with an
\* unclassified error has returned nil
C15_StatusFetchSwallowed ==
    /\ pc = "done" /\ result = "nil" /\ Len(calls) >= 1
    /\ IsCall(Len(calls), "Get", "ClusterLogging")
    /\ calls[Len(calls)].ans = "Other"

\* C16: for every live and desired CronJob, isCuratorDifferent returns the
\* live job with the suspend flag of the desired one, and counts a change for
\* it, exactly when both flags are set and differ; when either is nil the
\* returned job has the live flag. The flag it reports is true exactly when
\* the schedules differ, or the suspend rule applies, or the images differ.
C16_SuspendPolicy ==
    diff.done =>
        LET cur == diff.current
            des == diff.desired
            fires == /\ cur.suspend # "nil"
                     /\ des.suspend # "nil"
                     /\ cur.suspend # des.suspend
        IN  /\ diff.out.suspend = IF fires THEN des.suspend ELSE cur.suspend
            /\ (cur.suspend = "nil" \/ des.suspend = "nil")
                  => diff.out.suspend = cur.suspend
            /\ diff.different <=> \/ cur.schedule # des.schedule
                                  \/ fires
                                  \/ cur.image # des.image

\* C16 witness: a live job that is suspended and a desired job that is not,
\* equal in schedule and image: the returned job is not suspended and a
\* change is reported
C16_Witness ==
    /\ diff.done
    /\ diff.current.suspend = "true" /\ diff.desired.suspend = "false"
    /\ diff.current.schedule = diff.desired.schedule
    /\ diff.current.image = diff.desired.image
    /\ diff.out.suspend = "false"
    /\ diff.different

\* C16 witness, nil: a live job without the flag and a desired job with it,
\* equal in schedule and image: no change is reported
C16_WitnessNil ==
    /\ diff.done
    /\ diff.current.suspend = "nil" /\ diff.desired.suspend = "true"
    /\ diff.current.schedule = diff.desired.schedule
    /\ diff.current.image = diff.desired.image
    /\ diff.out.suspend = "nil"
    /\ ~diff.different

\* C17: a step in which the pass issues an Update of a CronJob or of the
\* ClusterLogging object submits the version fetched in the same attempt; the
\* Update succeeds only when the stored object is the one that was fetched,
\* and when another actor has written the object since the fetch the Update
\* is refused and the object stays as that actor left it. A Get that follows
\* a refused Update returns a newer version than the one refused.
C17_NoLostUpdate ==
    /\ [][(Len(calls') = Len(calls) + 1 /\ calls'[Len(calls')].op = "Update")
           => LET u == calls'[Len(calls')]
              IN  IF u.kind = "CronJob"
                  THEN /\ u.obj.rv = current.rv
                       /\ u.ans = "OK" => jobs[u.name] = current
                       /\ jobs[u.name] # current
                            => u.ans # "OK" /\ jobs'[u.name] = jobs[u.name]
                  ELSE /\ u.kind = "ClusterLogging"
                       /\ u.obj.rv = curOwner.rv
                       /\ u.ans = "OK" => /\ owner.rv = curOwner.rv
                                          /\ owner.status = curOwner.status
                       /\ owner.rv # curOwner.rv
                            => u.ans # "OK" /\ owner' = owner]_vars
    /\ [](\A i \in Calls :
            (/\ calls[i].op = "Update" /\ calls[i].ans = "Conflict"
             /\ i < Len(calls) /\ calls[i + 1].ans = "OK")
            => /\ calls[i + 1].op = "Get"
               /\ calls[i + 1].name = calls[i].name
               /\ calls[i + 1].obj.rv > calls[i].obj.rv)

\* C17 witness: another actor changed the resources of a CronJob between the
\* Get and the Update of the pass; the Update was refused, the job was fetched
\* again and updated, and the pass has returned nil with the changed
\* resources still in the store
C17_Witness ==
    /\ pc = "done" /\ result = "nil" /\ extSeen
    /\ \E i \in Calls :
          /\ i + 2 <= Len(calls)
          /\ IsCall(i, "Update", "CronJob") /\ calls[i].ans = "Conflict"
          /\ calls[i].obj.resources = defaultResources
          /\ IsCall(i + 2, "Update", "CronJob") /\ calls[i + 2].ans = "OK"
          /\ calls[i + 2].name = calls[i].name
          /\ calls[i + 2].obj.resources = "manual"
          /\ jobs[calls[i].name].resources = "manual"
          /\ jobs[calls[i].name].schedule
               = newCuratorCronJob(cluster, calls[i].name).schedule

\* a step of the pass in progress
PassStep ==
    \/ createOrUpdateCuratorServiceAccount
    \/ createOrUpdateCuratorConfigMap
    \/ CreateJob
    \/ GetJob
    \/ UpdateJob
    \/ createOrUpdateCuratorSecret
    \/ GetStatus
    \/ StatusGet
    \/ StatusUpdate
    \/ Remove

\* the store calls of a pass at most: service account, config map, for each
\* of two jobs a Create and the attempts of its loop, secret, the status
\* computation, the attempts of the status loop
MaxStoreCalls ==
    2 + 2 * (1 + 2 * DefaultRetrySteps) + 2 + 2 * DefaultRetrySteps

\* the calls of the pass with this operation on this object
CallsOn(op, kind, name) ==
    {k \in Calls : calls[k].op = op /\ calls[k].kind = kind /\ calls[k].name = name}

\* C18: whatever the store answers and whatever a concurrent writer does, a
\* pass that has not returned can take a step, every step of it is one store
\* call, and it has issued at most MaxStoreCalls store calls; no retry loop is
\* in an attempt beyond the fifth, no object has been fetched or updated
\* more than five times, and every Update follows the Get of its attempt
\* directly (one Get and at most one Update per attempt).
C18_PassTerminates ==
    /\ pc \notin {"idle", "done"} => ENABLED PassStep
    /\ Len(calls) <= MaxStoreCalls
    /\ attempt <= DefaultRetrySteps
    /\ \A n \in JobNames \cup {""} :
          LET kind == IF n = "" THEN "ClusterLogging" ELSE "CronJob"
          IN  /\ Cardinality(CallsOn("Get", kind, n)) <= DefaultRetrySteps
              /\ Cardinality(CallsOn("Update", kind, n)) <= DefaultRetrySteps
              /\ \A k \in CallsOn("Update", kind, n) :
                    k > 1 /\ (k - 1) \in CallsOn("Get", kind, n)
              /\ \A k \in CallsOn("Get", kind, n) :
                    (\E g \in CallsOn("Get", kind, n) : g < k)
                    => /\ (k - 1) \in CallsOn("Update", kind, n)
                       /\ calls[k - 1].ans = "Conflict"

\* C18 witness: the first four Updates of a CronJob were answered Conflict,
\* the fifth succeeded, and the pass has returned nil
C18_Witness ==
    /\ pc = "done" /\ result = "nil"
    /\ \E n \in JobNames :
          /\ Cardinality(CallsOn("Get", "CronJob", n)) = DefaultRetrySteps
          /\ Cardinality(CallsOn("Update", "CronJob", n)) = DefaultRetrySteps
          /\ Cardinality({k \in CallsOn("Update", "CronJob", n) :
                             calls[k].ans = "OK"}) = 1

\* a job of the topology is there and equal to the desired one in schedule
\* and image, and in the suspend flag when both have it
InSync(n) ==
    /\ jobs[n].exists
    /\ MonitoredDiff(jobs[n], newCuratorCronJob(cluster, n)) = {}

\* since the current pass started no other actor has written and no store
\* call has failed
Settled == pass >= 1 /\ ~extSeen /\ ~FaultSeen

\* C19: under repeated reconciliation of a ClusterLogging with the curation
\* enabled in managed mode: if from some point on no other actor writes and
\* no store call fails, then from some point on every job of the topology is
\* in the store and in sync with the desired job. And a step of the pass that
\* takes a job of the topology from out of sync to in sync is an Update of
\* that job answered OK.
C19_Convergence ==
    /\ (<>[]Settled) => <>[](\A n \in Topology(cluster) : InSync(n))
    /\ [][\A n \in Topology(cluster) :
            (/\ cluster' = cluster
             /\ calls' # calls
             /\ jobs[n].exists
             /\ ~InSync(n)
             /\ InSync(n)')
            => LET u == calls'[Len(calls')]
               IN  /\ u.op = "Update" /\ u.kind = "CronJob" /\ u.name = n
                   /\ u.ans = "OK"]_vars

\* C19 witness: a pass without a write of another actor and without a failed
\* store call has returned nil; a job of the topology was out of sync when it
\* started, was updated, and every job of the topology is in sync
C19_Witness ==
    /\ pc = "done" /\ result = "nil" /\ Settled
    /\ \A n \in Topology(cluster) : InSync(n)
    /\ \E n \in Topology(cluster) :
          /\ pre.jobs[n].exists
          /\ MonitoredDiff(pre.jobs[n], newCuratorCronJob(cluster, n)) # {}
          /\ \E i \in Calls : /\ IsCall(i, "Update", "CronJob")
                               /\ calls[i].name = n /\ calls[i].ans = "OK"

\* C20: a pass with the curation enabled that has returned nil, in managed
\* or unmanaged mode alike, has issued one Create for the service account,
\* one for the config map and one for each job of the topology (and for no
\* other job), each job Create with the desired job; as long as no other
\* actor writes, these resources are in the store, and a job that was absent
\* when the pass started was created (in unmanaged mode: is there as
\* desired). In unmanaged mode the pass has issued no Get and no Update of a
\* CronJob and no Delete.
C20_CreationUngated ==
    (pass >= 1 /\ cluster.type = CurationTypeCurator
     /\ pc = "done" /\ result = "nil")
    => /\ \A k \in {"ServiceAccount", "ConfigMap"} :
             Cardinality(CallsOn("Create", k, "curator")) = 1
       /\ \A n \in JobNames :
             Cardinality(CallsOn("Create", "CronJob", n))
               = IF n \in Topology(cluster) THEN 1 ELSE 0
       /\ \A i \in Calls :
             IsCall(i, "Create", "CronJob")
             => calls[i].obj = newCuratorCronJob(cluster, calls[i].name)
       /\ ~extSeen =>
             /\ \A k \in {"ServiceAccount", "ConfigMap"} : statics[k] # "absent"
             /\ \A n \in Topology(cluster) :
                   /\ jobs[n].exists
                   /\ ~pre.jobs[n].exists =>
                         /\ \A i \in CallsOn("Create", "CronJob", n) :
                               calls[i].ans = "OK"
                         /\ Unmanaged(cluster) =>
                               jobs[n] = [newCuratorCronJob(cluster, n)
                                            EXCEPT !.rv = 1]
       /\ Unmanaged(cluster) =>
             \A i \in Calls :
                 /\ calls[i].op # "Delete"
                 /\ calls[i].kind = "CronJob" => calls[i].op \in {"Create", "List"}

\* C20 witness: a pass in unmanaged mode with the curation enabled and the
\* split topology, started on a store without any of the resources, has
\* returned nil and the service account, the config map and both jobs are
\* in the store
C20_Witness ==
    /\ pc = "done" /\ result = "nil" /\ ~extSeen
    /\ cluster.type = CurationTypeCurator /\ Unmanaged(cluster)
    /\ ~cluster.allInOne
    /\ \A k \in StaticKinds : pre.statics[k] = "absent"
    /\ \A n \in JobNames : ~pre.jobs[n].exists
    /\ statics["ServiceAccount"] = "desired" /\ statics["ConfigMap"] = "desired"
    /\ jobs["curator-app"].exists /\ jobs["curator-infra"].exists

=============================================================================
